---- MODULE Spec2Model ----
(***************************************************************************)
(* The workflow execution engine of backend/services/workflow_executor.py  *)
(* (WorkflowExecutor.build_execution_order and .execute_workflow), with    *)
(* LLMService.generate_response of backend/services/llm_service.py and     *)
(* the request handler of backend/main.py, as a state machine.             *)
(*                                                                         *)
(* Every request handled by the one shared WorkflowExecutor is a run r.    *)
(* The runs are coroutines of one event loop: a run keeps the thread until *)
(* it awaits the web-search HTTP call (the only real suspension point:     *)
(* the retrieval and the generation calls are blocking calls) or ends.     *)
(*                                                                         *)
(* Python values: an Optional value is None (<<>>) or Some(v) (<<v>>);     *)
(* a str is a TLA+ string, "" the empty one; a dict with optional keys is  *)
(* a function whose DOMAIN holds the keys present.                         *)
(***************************************************************************)
EXTENDS Integers, Sequences, FiniteSets, TLC

VARIABLES
    query,            \* [run -> str]          execute_workflow's query
    nodes,            \* [run -> Seq(node)]    execute_workflow's nodes
    edges,            \* [run -> Seq(edge)]    execute_workflow's edges
    node_configs,     \* [run -> dict]         execute_workflow's node_configs
    pc,               \* [run -> position of the coroutine]
    graph,            \* [run -> dict]  the adjacency list of build_execution_order
    order,            \* [run -> Seq(id)]      build_execution_order's order
    visited,          \* [run -> set of id]    build_execution_order's visited
    stack,            \* [run -> Seq(frame)]   the call stack of dfs
    ncalls,           \* [run -> Nat]          calls of dfs made so far (history)
    execution_order,  \* [run -> Seq(id)]      execute_workflow's execution_order
    idx,              \* [run -> Nat]          position of the for loop in execution_order
    state,            \* [key -> dict]         execute_workflow's state
    result,           \* [run -> Optional]     what execute_workflow returned
    error,            \* [run -> Optional]     the exception execute_workflow raised
    log,              \* [run -> Seq(call)]    external calls of the run (history)
    dispatched,       \* [run -> Seq(id)]      nodes the for loop has taken (history)
    inflight,         \* [run -> set of call]  external calls awaited and not yet answered
    running           \* the run that holds the event loop's thread, 0 when none

vars == <<query, nodes, edges, node_configs, pc, graph, order, visited, stack,
          ncalls, execution_order, idx, state, result, error, log, dispatched,
          inflight, running>>

----------------------------------------------------------------------------
(* Bounds of the model *)

\* most nodes of a pipeline request
MaxNodes == 4
\* most nodes of a free-shape request
MaxShapeNodes == 3
\* most edges of a free-shape request
MaxEdges == 3

Runs == {1, 2}

----------------------------------------------------------------------------
(* Python values *)

None == <<>>
Some(v) == <<v>>

\* dict.get(key, default)
Get(d, key, default) == IF key \in DOMAIN d THEN d[key] ELSE default

\* the truth value Python gives an Optional[str]: None and "" are false
Truthy(opt) == opt # None /\ opt[1] # ""

Min(S) == CHOOSE x \in S : \A y \in S : x <= y

SeqsUpTo(S, k) == UNION {[1..m -> S] : m \in 0..k}

Range(s) == {s[i] : i \in 1..Len(s)}

\* sep.join(parts)
RECURSIVE JoinWith(_, _)
JoinWith(sep, parts) ==
    IF parts = <<>> THEN ""
    ELSE IF Len(parts) = 1 THEN parts[1]
    ELSE parts[1] \o sep \o JoinWith(sep, Tail(parts))

----------------------------------------------------------------------------
(* The requests: graphs, configurations, queries *)

ComponentTypes == {"userQuery", "knowledgeBase", "llmEngine", "output", "custom"}

\* node ids by position in the node list; "" is an id Python takes for false
AllIds == <<"", "a", "b", "c", "d", "e", "f", "g">>
\* an edge endpoint that is no node's id
DanglingId == "zz"

Node(id, type) == [id |-> id, componentType |-> type]
Edge(s, t) == [source |-> s, target |-> t]

\* n nodes with the ids AllIds[first], AllIds[first + 1], ... and the types ts
NodeList(n, first, ts) == [i \in 1..n |-> Node(AllIds[first + i - 1], ts[i])]

NodeIds(ns) == {ns[i].id : i \in 1..Len(ns)}

\* the configurations a generation node is given (an absent key is its default)
LlmConfigs ==
    { <<>>,
      [enableWebSearch |-> TRUE],
      [model |-> "gemini-pro", enableWebSearch |-> FALSE] }

\* node_configs: a configuration for some generation nodes, none for the others
ConfigsOf(ns) ==
    LET llm == {ns[i].id : i \in {j \in 1..Len(ns) : ns[j].componentType = "llmEngine"}}
    IN UNION { [S -> LlmConfigs \ {<<>>}] : S \in SUBSET llm }

\* free shapes: any edge list over the node ids, at most one endpoint dangling,
\* the nodes being query sources or outputs
ShapeEdges(ns) ==
    LET ends == NodeIds(ns) \cup {DanglingId}
        all == SeqsUpTo({Edge(s, t) : s \in ends, t \in ends}, MaxEdges)
        dangling(es) == Cardinality({k \in 1..Len(es) : es[k].source = DanglingId})
                        + Cardinality({k \in 1..Len(es) : es[k].target = DanglingId})
    IN {es \in all : dangling(es) <= 1}

ShapeTypes == {"userQuery", "output"}

ShapeNodeLists ==
    UNION { {NodeList(n, first, ts) : first \in {1, 2}, ts \in [1..n -> ShapeTypes]} :
            n \in 1..MaxShapeNodes }

\* pipelines: nodes of every type, each linked to the next one of the node list
Chain(ns) == [i \in 1..(Len(ns) - 1) |-> Edge(ns[i].id, ns[i + 1].id)]

\* the edge lists of a pipeline: the chain; the chain and then an edge from its
\* last node to an id that is no node's; an edge from its first node to such an
\* id and then the chain; the chain and then an edge from such an id
PipelineEdges(ns) ==
    {Chain(ns)} \cup
    (IF ns = <<>> THEN {}
     ELSE { Append(Chain(ns), Edge(ns[Len(ns)].id, DanglingId)),
            <<Edge(ns[1].id, DanglingId)>> \o Chain(ns),
            Append(Chain(ns), Edge(DanglingId, ns[1].id)) })

PipelineNodeLists ==
    UNION { {NodeList(n, first, ts) : first \in {1, 2}, ts \in [1..n -> ComponentTypes]} :
            n \in 0..MaxNodes }

Request(ns, es, c) == [nodes |-> ns, edges |-> es, node_configs |-> c]

\* the query of run r
Queries == <<"What is X?", "What is Y?">>

----------------------------------------------------------------------------
(* The external capabilities: what a call can answer *)

\* EmbeddingService.query_collection: at most n_results = 3 documents, or an exception
RetrievalResults == {<<>>, <<"c1">>, <<"c1", "c2">>}
\* LLMService.web_search: a text, or an exception
SearchResults == {"", "w1"}
\* the provider's completion: a text, or an exception
GenerationResults == {"r1", "r2"}

Retrieval(node, q, out) == [kind |-> "retrieval", node |-> node, query |-> q, out |-> out]
Search(node, q, out) == [kind |-> "search", node |-> node, query |-> q, out |-> out]
Generation(node, q, context, prompt, model, out) ==
    [kind |-> "generation", node |-> node, query |-> q, context |-> context,
     prompt |-> prompt, model |-> model, out |-> out]

----------------------------------------------------------------------------
(* build_execution_order *)

\* Adjacency with the targets of a node kept last edge first
AdjacencyReversed(ns, es) ==
    [id \in NodeIds(ns) |->
        LET out == SelectSeq(es, LAMBDA e : e.source = id)
        IN [k \in 1..Len(out) |-> out[Len(out) + 1 - k].target]]

\* lines 15-17: graph = {id: []}, then graph[source].append(target) per edge
Adjacency(ns, es) ==
    [id \in NodeIds(ns) |->
        LET out == SelectSeq(es, LAMBDA e : e.source = id)
        IN [k \in 1..Len(out) |-> out[k].target]]

\* HasKeyError with a source that is no key given a list of its own
HasKeyErrorNever(ns, es) == FALSE

\* line 17: graph[edge['source']] of a source that is no key raises KeyError
HasKeyError(ns, es) == \E k \in 1..Len(es) : es[k].source \notin NodeIds(ns)

\* StartNode falling back on the first node when there is no query source
StartNodeOrFirst(ns) ==
    LET uq == {i \in 1..Len(ns) : ns[i].componentType = "userQuery"}
    IN IF uq # {} THEN Some(ns[Min(uq)].id)
       ELSE IF ns = <<>> THEN None ELSE Some(ns[1].id)

\* line 20: next((n['id'] for n in nodes if componentType == 'userQuery'), None)
StartNode(ns) ==
    LET uq == {i \in 1..Len(ns) : ns[i].componentType = "userQuery"}
    IN IF uq = {} THEN None ELSE Some(ns[Min(uq)].id)

\* line 22: not start_node
NotStartNode(start) == ~Truthy(start)

\* NewState holding a context before any node has run
NewStateStale(q) == [query |-> q, context |-> Some("c1"), response |-> None, metadata |-> None]

\* NewState without the query given
NewStateBlank(q) == [query |-> "", context |-> None, response |-> None, metadata |-> None]

\* lines 52-56
NewState(q) == [query |-> q, context |-> None, response |-> None, metadata |-> None]

\* StateKey with the state kept on the shared executor
StateKeyShared(r) == 1

\* the state a run works on: a local variable of its own call (lines 52-56)
StateKey(r) == r

Frame(id, i) == [node |-> id, i |-> i]

Top(r) == stack[r][Len(stack[r])]
Pop(s) == SubSeq(s, 1, Len(s) - 1)

Fail(r, e) ==
    /\ pc' = [pc EXCEPT ![r] = "failed"]
    /\ error' = [error EXCEPT ![r] = Some(e)]
    /\ running' = 0

\* execute_workflow is called (main.py 113), line 49 and lines 15-27, 37
Start(r) ==
    /\ pc[r] = "start"
    /\ running = 0
    /\ IF HasKeyError(nodes[r], edges[r])
       THEN /\ Fail(r, "KeyError")
            /\ UNCHANGED <<graph, order, visited, stack, ncalls>>
       ELSE /\ graph' = [graph EXCEPT ![r] = Adjacency(nodes[r], edges[r])]
            /\ IF NotStartNode(StartNode(nodes[r]))
               THEN /\ Fail(r, "ValueError: No User Query component found")
                    /\ UNCHANGED <<order, visited, stack, ncalls>>
               ELSE /\ order' = [order EXCEPT ![r] = <<>>]
                    /\ visited' = [visited EXCEPT ![r] = {}]
                    /\ stack' = [stack EXCEPT ![r] = <<Frame(StartNode(nodes[r])[1], 0)>>]
                    /\ ncalls' = [ncalls EXCEPT ![r] = 1]
                    /\ pc' = [pc EXCEPT ![r] = "dfs"]
                    /\ running' = r
                    /\ UNCHANGED error
    /\ UNCHANGED <<query, nodes, edges, node_configs, execution_order, idx, state,
                   result, log, dispatched, inflight>>

\* Seen without the visited set
SeenNever(r, id) == FALSE

\* line 30: a node already visited is not entered again
Seen(r, id) == id \in visited[r]

\* dfs is entered, lines 30-33
DfsEnter(r) ==
    /\ pc[r] = "dfs" /\ running = r
    /\ stack[r] # <<>> /\ Top(r).i = 0
    /\ IF Seen(r, Top(r).node)
       THEN /\ stack' = [stack EXCEPT ![r] = Pop(@)]
            /\ UNCHANGED <<visited, order>>
       ELSE /\ visited' = [visited EXCEPT ![r] = @ \cup {Top(r).node}]
            /\ order' = [order EXCEPT ![r] = Append(@, Top(r).node)]
            /\ stack' = [stack EXCEPT ![r] = Append(Pop(@), Frame(Top(r).node, 1))]
    /\ UNCHANGED <<query, nodes, edges, node_configs, pc, graph, ncalls,
                   execution_order, idx, state, result, error, log, dispatched,
                   inflight, running>>

\* lines 34-35: for neighbor in graph.get(node_id, []): dfs(neighbor)
DfsLoop(r) ==
    /\ pc[r] = "dfs" /\ running = r
    /\ stack[r] # <<>> /\ Top(r).i > 0
    /\ LET neighbors == Get(graph[r], Top(r).node, <<>>)
       IN IF Top(r).i <= Len(neighbors)
          THEN /\ stack' = [stack EXCEPT ![r] =
                        Append(Append(Pop(@), Frame(Top(r).node, Top(r).i + 1)),
                               Frame(neighbors[Top(r).i], 0))]
               /\ ncalls' = [ncalls EXCEPT ![r] = @ + 1]
          ELSE /\ stack' = [stack EXCEPT ![r] = Pop(@)]
               /\ UNCHANGED ncalls
    /\ UNCHANGED <<query, nodes, edges, node_configs, pc, graph, order, visited,
                   execution_order, idx, state, result, error, log, dispatched,
                   inflight, running>>

\* dfs(start_node) has returned: line 38, then lines 49-56
BeginExecution(r) ==
    /\ pc[r] = "dfs" /\ running = r
    /\ stack[r] = <<>>
    /\ execution_order' = [execution_order EXCEPT ![r] = order[r]]
    /\ state' = [state EXCEPT ![StateKey(r)] = NewState(query[r])]
    /\ idx' = [idx EXCEPT ![r] = 1]
    /\ pc' = [pc EXCEPT ![r] = "loop"]
    /\ UNCHANGED <<query, nodes, edges, node_configs, graph, order, visited, stack,
                   ncalls, result, error, log, dispatched, inflight, running>>

----------------------------------------------------------------------------
(* execute_workflow: the for loop of lines 58-103 *)

InLoop(r) == pc[r] = "loop" /\ running = r /\ idx[r] <= Len(execution_order[r])

CurrentId(r) == execution_order[r][idx[r]]

\* line 59: next(n for n in nodes if n['id'] == node_id), None when there is none
NodeOf(ns, id) ==
    LET at == {i \in 1..Len(ns) : ns[i].id = id}
    IN IF at = {} THEN None ELSE Some(ns[Min(at)])

CurrentType(r) == NodeOf(nodes[r], CurrentId(r))[1].componentType

\* line 61: node_configs.get(node_id, {})
ConfigOf(r, id) == Get(node_configs[r], id, <<>>)

\* NextIdx leaving a node out
NextIdxSkip(i) == i + 2

\* the position of the for loop after one more node
NextIdx(i) == i + 1

\* line 58 takes the next node id of the order
Take(r) == dispatched' = [dispatched EXCEPT ![r] = Append(@, CurrentId(r))]

Called(r, calls) == log' = [log EXCEPT ![r] = @ \o calls]

\* line 59 finds no node with the id: next() raises StopIteration
LookupFail(r) ==
    /\ InLoop(r)
    /\ NodeOf(nodes[r], CurrentId(r)) = None
    /\ Take(r)
    /\ Fail(r, "StopIteration")
    /\ UNCHANGED <<query, nodes, edges, node_configs, graph, order, visited, stack,
                   ncalls, execution_order, idx, state, result, log, inflight>>

\* Pass raising on a component type no branch names
PassStrict(r) ==
    /\ InLoop(r)
    /\ NodeOf(nodes[r], CurrentId(r)) # None
    /\ CurrentType(r) \notin {"knowledgeBase", "llmEngine"}
    /\ Take(r)
    /\ IF CurrentType(r) \in {"userQuery", "output"}
       THEN /\ idx' = [idx EXCEPT ![r] = NextIdx(@)]
            /\ UNCHANGED <<pc, error, running>>
       ELSE /\ Fail(r, "ValueError: unknown component type")
            /\ UNCHANGED idx
    /\ UNCHANGED <<query, nodes, edges, node_configs, graph, order, visited, stack,
                   ncalls, execution_order, state, result, log, inflight>>

\* lines 63-65, 101-103, and a component type no branch names
Pass(r) ==
    /\ InLoop(r)
    /\ NodeOf(nodes[r], CurrentId(r)) # None
    /\ CurrentType(r) \notin {"knowledgeBase", "llmEngine"}
    /\ Take(r)
    /\ idx' = [idx EXCEPT ![r] = NextIdx(@)]
    /\ UNCHANGED <<query, nodes, edges, node_configs, pc, graph, order, visited, stack,
                   ncalls, execution_order, state, result, error, log, inflight, running>>

\* ContextAfter with an empty context for a failed retrieval
ContextAfterEmpty(out) == IF out = None THEN Some("") ELSE Some(JoinWith("\n\n", out[1]))

\* line 79 on the documents returned, line 81 on any exception
ContextAfter(out) == IF out = None THEN None ELSE Some(JoinWith("\n\n", out[1]))

\* StateAfterRetrieval leaving the context as it was when the retrieval fails
StateAfterRetrievalKept(st, out) ==
    IF out = None THEN st ELSE [st EXCEPT !.context = ContextAfter(out)]

\* lines 79-81: state["context"] is assigned on either path
StateAfterRetrieval(st, out) == [st EXCEPT !.context = ContextAfter(out)]

\* lines 67-81: the retrieval call and its try/except
Retrieve(r) ==
    /\ InLoop(r)
    /\ NodeOf(nodes[r], CurrentId(r)) # None
    /\ CurrentType(r) = "knowledgeBase"
    /\ Take(r)
    /\ \E out \in {None} \cup {Some(d) : d \in RetrievalResults} :
        /\ Called(r, <<Retrieval(CurrentId(r), state[StateKey(r)].query, out)>>)
        /\ state' = [state EXCEPT ![StateKey(r)] = StateAfterRetrieval(@, out)]
    /\ idx' = [idx EXCEPT ![r] = NextIdx(@)]
    /\ UNCHANGED <<query, nodes, edges, node_configs, pc, graph, order, visited, stack,
                   ncalls, execution_order, result, error, inflight, running>>

\* llm_service.py 58-60
BasePrompt(q, context) ==
    IF Truthy(context) THEN "Context:\n" \o context[1] \o "\n\nQuestion: " \o q ELSE q

\* llm_service.py 66
SearchPrompt(web, prompt) == "Web Search Results:\n" \o web \o "\n\n" \o prompt

\* llm_service.py 81-85, 91-95: what generate_response returns
LlmResponse(text, model, web_context) ==
    [response |-> text, model |-> model, web_context |-> web_context]

\* StateAfter keeping a response the state already holds
StateAfterFirst(st, llm_response) ==
    IF st.response # None THEN st
    ELSE [st EXCEPT !.response = Some(llm_response.response),
                    !.metadata = Some([model |-> llm_response.model,
                                       web_context |-> llm_response.web_context])]

\* lines 95-99
StateAfter(st, llm_response) ==
    [st EXCEPT !.response = Some(llm_response.response),
               !.metadata = Some([model |-> llm_response.model,
                                  web_context |-> llm_response.web_context])]

\* WebSearchOf with the web search made whatever the configuration
WebSearchOfAlways(r, id) == TRUE

\* lines 90, 92: the arguments read from the node's configuration
ModelOf(r, id) == Get(ConfigOf(r, id), "model", "gpt-4")
WebSearchOf(r, id) == Get(ConfigOf(r, id), "enableWebSearch", FALSE)

GenerationOutcomes == {None} \cup {Some(t) : t \in GenerationResults}
SearchOutcomes == {None} \cup {Some(t) : t \in SearchResults}

\* GenerationRaises with the exception caught and the node left
GenerationSwallowed(r) ==
    /\ idx' = [idx EXCEPT ![r] = NextIdx(@)]
    /\ pc' = [pc EXCEPT ![r] = "loop"]
    /\ running' = r
    /\ UNCHANGED <<state, error>>

\* lines 85-94: nothing catches an exception of generate_response
GenerationRaises(r) ==
    /\ Fail(r, "GenerationError")
    /\ UNCHANGED <<state, idx>>

\* the generation call of generate_response (llm_service.py 69-95) with the prompt
\* given, and lines 95-99 on its answer; an exception ends the run
Complete(r, web_context, prompt, calls, out) ==
    LET st == state[StateKey(r)]
        id == CurrentId(r)
        call == Generation(id, st.query, st.context, prompt, ModelOf(r, id), out)
    IN /\ Called(r, Append(calls, call))
       /\ IF out = None
          THEN GenerationRaises(r)
          ELSE /\ state' = [state EXCEPT ![StateKey(r)] =
                              StateAfter(st, LlmResponse(out[1], ModelOf(r, id), web_context))]
               /\ idx' = [idx EXCEPT ![r] = NextIdx(@)]
               /\ pc' = [pc EXCEPT ![r] = "loop"]
               /\ running' = r
               /\ UNCHANGED error

\* lines 83-99 with web search disabled: generate_response runs without suspending
Generate(r) ==
    /\ InLoop(r)
    /\ NodeOf(nodes[r], CurrentId(r)) # None
    /\ CurrentType(r) = "llmEngine"
    /\ ~WebSearchOf(r, CurrentId(r))
    /\ Take(r)
    /\ \E out \in GenerationOutcomes :
        Complete(r, None,
                 BasePrompt(state[StateKey(r)].query, state[StateKey(r)].context),
                 <<>>, out)
    /\ UNCHANGED <<query, nodes, edges, node_configs, graph, order, visited, stack,
                   ncalls, execution_order, result, inflight>>

\* lines 83-94 and llm_service.py 58-65 with web search enabled: the run awaits
\* web_search (llm_service.py 28-32) and gives up the thread
SearchStart(r) ==
    /\ InLoop(r)
    /\ NodeOf(nodes[r], CurrentId(r)) # None
    /\ CurrentType(r) = "llmEngine"
    /\ WebSearchOf(r, CurrentId(r))
    /\ Take(r)
    /\ inflight' = [inflight EXCEPT ![r] = @ \cup {<<"search", CurrentId(r)>>}]
    /\ pc' = [pc EXCEPT ![r] = "search"]
    /\ running' = 0
    /\ UNCHANGED <<query, nodes, edges, node_configs, graph, order, visited, stack,
                   ncalls, execution_order, idx, state, result, error, log>>

\* web_search answers or raises and the run is resumed: llm_service.py 65-95,
\* then lines 95-99
SearchReturn(r) ==
    /\ pc[r] = "search"
    /\ running = 0
    /\ inflight' = [inflight EXCEPT ![r] = @ \ {<<"search", CurrentId(r)>>}]
    /\ \E web \in SearchOutcomes :
        LET st == state[StateKey(r)]
            call == Search(CurrentId(r), st.query, web)
        IN IF web = None
           THEN /\ Called(r, <<call>>)
                /\ Fail(r, "SearchError")
                /\ UNCHANGED <<state, idx>>
           ELSE \E out \in GenerationOutcomes :
                    Complete(r, web,
                             SearchPrompt(web[1], BasePrompt(st.query, st.context)),
                             <<call>>, out)
    /\ UNCHANGED <<query, nodes, edges, node_configs, graph, order, visited, stack,
                   ncalls, execution_order, result, dispatched>>

\* line 105: return state; the coroutine ends
Finish(r) ==
    /\ pc[r] = "loop" /\ running = r
    /\ idx[r] > Len(execution_order[r])
    /\ result' = [result EXCEPT ![r] = Some(state[StateKey(r)])]
    /\ pc' = [pc EXCEPT ![r] = "done"]
    /\ running' = 0
    /\ UNCHANGED <<query, nodes, edges, node_configs, graph, order, visited, stack,
                   ncalls, execution_order, idx, state, error, log, dispatched, inflight>>

----------------------------------------------------------------------------
(* The specifications *)

\* no state yet: the local variable of lines 52-56 is unbound
NoState == NewState("")

\* the runs of `active` have been handed the requests reqs; the others never start
InitRuns(active, reqs) ==
    /\ query = [r \in Runs |-> Queries[r]]
    /\ nodes = [r \in Runs |-> reqs[r].nodes]
    /\ edges = [r \in Runs |-> reqs[r].edges]
    /\ node_configs = [r \in Runs |-> reqs[r].node_configs]
    /\ pc = [r \in Runs |-> IF r \in active THEN "start" ELSE "idle"]
    /\ graph = [r \in Runs |-> <<>>]
    /\ order = [r \in Runs |-> <<>>]
    /\ visited = [r \in Runs |-> {}]
    /\ stack = [r \in Runs |-> <<>>]
    /\ ncalls = [r \in Runs |-> 0]
    /\ execution_order = [r \in Runs |-> <<>>]
    /\ idx = [r \in Runs |-> 0]
    /\ state = [r \in Runs |-> NoState]
    /\ result = [r \in Runs |-> None]
    /\ error = [r \in Runs |-> None]
    /\ log = [r \in Runs |-> <<>>]
    /\ dispatched = [r \in Runs |-> <<>>]
    /\ inflight = [r \in Runs |-> {}]
    /\ running = 0

NoRequest == Request(<<>>, <<>>, <<>>)

Only(rq) == [r \in Runs |-> IF r = 1 THEN rq ELSE NoRequest]

\* one request, a pipeline
Init ==
    \E ns \in PipelineNodeLists : \E es \in PipelineEdges(ns) : \E c \in ConfigsOf(ns) :
        InitRuns({1}, Only(Request(ns, es, c)))

\* one request, a free shape
InitShape ==
    \E ns \in ShapeNodeLists : \E es \in ShapeEdges(ns) :
        InitRuns({1}, Only(Request(ns, es, <<>>)))

\* the workflow of the specification's example (query source, retrieval,
\* generation, output) and parts of it, as the two requests of two runs
PairRequests ==
    LET uq == "userQuery"  kb == "knowledgeBase"  llm == "llmEngine"  out == "output"
        search == [enableWebSearch |-> TRUE]
        P(ts, es, c) == Request(NodeList(Len(ts), 2, ts), es, c)
        chain(ts) == Chain(NodeList(Len(ts), 2, ts))
    IN { P(<<uq, kb, llm, out>>, chain(<<uq, kb, llm, out>>), [c |-> search]),
         P(<<uq, llm>>, chain(<<uq, llm>>), <<>>),
         P(<<uq, llm, llm>>, chain(<<uq, llm, llm>>), [b |-> search, c |-> search]),
         P(<<uq, kb, llm>>, Append(chain(<<uq, kb, llm>>), Edge("c", DanglingId)),
           [c |-> search]) }

\* two requests handled by the one executor
InitPair == \E reqs \in [Runs -> PairRequests] : InitRuns(Runs, reqs)

Next ==
    \E r \in Runs :
        \/ Start(r)
        \/ DfsEnter(r)
        \/ DfsLoop(r)
        \/ BeginExecution(r)
        \/ LookupFail(r)
        \/ Pass(r)
        \/ Retrieve(r)
        \/ Generate(r)
        \/ SearchStart(r)
        \/ SearchReturn(r)
        \/ Finish(r)

\* the steps of a run whose nodes are query sources and outputs
NextShape ==
    \E r \in Runs :
        \/ Start(r)
        \/ DfsEnter(r)
        \/ DfsLoop(r)
        \/ BeginExecution(r)
        \/ LookupFail(r)
        \/ Pass(r)
        \/ Finish(r)

Spec == Init /\ [][Next]_vars

SpecShape == InitShape /\ [][NextShape]_vars

SpecPair == InitPair /\ [][Next]_vars

----------------------------------------------------------------------------
(* Graphs, for the properties *)

QuerySources(ns) == {i \in 1..Len(ns) : ns[i].componentType = "userQuery"}

\* the entry node: the query source (the first of the node list)
Entry(r) == nodes[r][Min(QuerySources(nodes[r]))].id

ValidEdges(r) ==
    \A k \in 1..Len(edges[r]) :
        edges[r][k].source \in NodeIds(nodes[r]) /\ edges[r][k].target \in NodeIds(nodes[r])

Succ(es, S) == {es[k].target : k \in {j \in 1..Len(es) : es[j].source \in S}}

\* the ids reached from S along edges, S included
RECURSIVE Closure(_, _)
Closure(es, S) == IF Succ(es, S) \subseteq S THEN S ELSE Closure(es, S \cup Succ(es, S))

Reachable(r) == Closure(edges[r], {Entry(r)})

OnCycle(es, v) == v \in Closure(es, Succ(es, {v}))

CycleReachable(r) ==
    QuerySources(nodes[r]) # {} /\ \E v \in Reachable(r) : OnCycle(edges[r], v)

Acyclic(es) == \A k \in 1..Len(es) : ~OnCycle(es, es[k].source)

NoDuplicates(s) == \A i, j \in 1..Len(s) : s[i] = s[j] => i = j

Position(s, v) == Min({i \in 1..Len(s) : s[i] = v})

\* build_execution_order has returned or raised
Resolved(r) == pc[r] \notin {"idle", "start", "dfs"}

\* build_execution_order has returned its order
Returned(r) == idx[r] > 0

NoQuerySourceError == Some("ValueError: No User Query component found")

----------------------------------------------------------------------------
(* The properties *)

\* C1: for a graph with exactly one query source, edges between node ids and no
\* cycle reachable from the entry, build_execution_order returns an order that
\* starts with the entry and holds exactly the nodes reachable from it, each
\* once; no other node is in the order or is executed.
C1_OrderIsReachableNodes ==
    \A r \in Runs :
        (/\ Cardinality(QuerySources(nodes[r])) = 1
         /\ ValidEdges(r)
         /\ ~CycleReachable(r)
         /\ Resolved(r))
        => /\ Returned(r)
           /\ execution_order[r] # <<>>
           /\ execution_order[r][1] = Entry(r)
           /\ Range(execution_order[r]) = Reachable(r)
           /\ NoDuplicates(execution_order[r])
           /\ Range(dispatched[r]) \subseteq Reachable(r)

\* C2: a graph with no query source (its edges between node ids) fails with the
\* missing-entry-node error, having made no external call and executed no node.
C2_NoQuerySourceFails ==
    \A r \in Runs :
        (QuerySources(nodes[r]) = {} /\ ValidEdges(r) /\ pc[r] \notin {"idle", "start"})
        => /\ pc[r] = "failed"
           /\ error[r] = NoQuerySourceError
           /\ result[r] = None
           /\ log[r] = <<>>
           /\ inflight[r] = {}
           /\ dispatched[r] = <<>>

C2_Witness ==
    \E r \in Runs :
        /\ QuerySources(nodes[r]) = {}
        /\ ValidEdges(r)
        /\ \E i \in 1..Len(nodes[r]) : nodes[r][i].componentType = "llmEngine"
        /\ edges[r] # <<>>
        /\ pc[r] = "failed"

\* C9: the order is a topological order of the reachable part of an acyclic
\* graph: the source of an edge between reachable nodes comes before its target.
C9_OrderIsTopological ==
    \A r \in Runs :
        (Returned(r) /\ ValidEdges(r) /\ Acyclic(edges[r]))
        => \A k \in 1..Len(edges[r]) :
              LET u == edges[r][k].source
                  v == edges[r][k].target
              IN (u \in Reachable(r) /\ v \in Reachable(r))
                 => Position(execution_order[r], u) < Position(execution_order[r], v)

----------------------------------------------------------------------------
(* The external calls of a run, for the properties *)

Calls(r, kind) == {k \in 1..Len(log[r]) : log[r][k].kind = kind}

FailedCalls(r, kind) == {k \in Calls(r, kind) : log[r][k].out = None}

Max(S) == CHOOSE x \in S : \A y \in S : x >= y

TypeOf(r, id) == NodeOf(nodes[r], id)[1].componentType

LlmReachable(r) ==
    \E i \in 1..Len(nodes[r]) :
        nodes[r][i].componentType = "llmEngine" /\ nodes[r][i].id \in Reachable(r)

\* C3: when the generation call of a generation node fails, the failure is the
\* run's: no result, not even a partial one, is returned, and nothing after the
\* failing node is processed: no later node is taken, no later call is made.
C3_GenerationFailureAborts ==
    \A r \in Runs : \A k \in FailedCalls(r, "generation") :
        /\ k = Len(log[r])
        /\ pc[r] = "failed"
        /\ error[r] = Some("GenerationError")
        /\ result[r] = None
        /\ inflight[r] = {}
        /\ idx[r] <= Len(execution_order[r])
        /\ CurrentId(r) = log[r][k].node
        /\ dispatched[r] = SubSeq(execution_order[r], 1, idx[r])

C3_Witness ==
    \E r \in Runs :
        /\ FailedCalls(r, "generation") # {}
        /\ pc[r] = "failed"
        /\ ValidEdges(r)
        /\ idx[r] + 1 < Len(execution_order[r])
        /\ TypeOf(r, execution_order[r][idx[r] + 1]) = "llmEngine"
        /\ TypeOf(r, execution_order[r][idx[r] + 2]) = "output"

\* C4: when the retrieval call of a retrieval node fails, the failure is
\* absorbed: the context is None, the run goes on to the next node, a generation
\* node that follows is called with no context (its prompt is the bare query),
\* and the run can complete, its result holding no context and its metadata
\* only the model and the web-search text.
C4_RetrievalFailureAbsorbed ==
    \A r \in Runs : \A k \in FailedCalls(r, "retrieval") :
        /\ idx[r] > Position(execution_order[r], log[r][k].node)
        /\ error[r] \in {None, Some("StopIteration"), Some("GenerationError"),
                         Some("SearchError")}
        /\ k = Len(log[r]) =>
              /\ state[StateKey(r)].context = None
              /\ pc[r] = "failed" => error[r] = Some("StopIteration")
        /\ (k < Len(log[r]) /\ log[r][k + 1].kind = "generation") =>
              /\ log[r][k + 1].context = None
              /\ log[r][k + 1].prompt = query[r]
        /\ (k + 1 < Len(log[r]) /\ log[r][k + 1].kind = "search") =>
              /\ log[r][k + 2].kind = "generation"
              /\ log[r][k + 2].context = None
              /\ log[r][k + 2].prompt = SearchPrompt(log[r][k + 1].out[1], query[r])
        /\ (pc[r] = "done" /\ k = Max(Calls(r, "retrieval"))) =>
              /\ result[r][1].context = None
              /\ result[r][1].metadata # None =>
                    /\ result[r][1].metadata[1].model \in {"gpt-4", "gemini-pro"}
                    /\ result[r][1].metadata[1].web_context \in SearchOutcomes

C4_Witness ==
    \E r \in Runs : \E k \in FailedCalls(r, "retrieval") :
        /\ k < Len(log[r])
        /\ log[r][k + 1].kind = "generation"
        /\ log[r][k + 1].out # None
        /\ pc[r] = "done"
        /\ result[r][1].metadata # None

\* C5: when no generation node is reachable from the entry, execute_workflow
\* completes and returns a result with the query given and no response, having
\* made no generation and no web-search call.
C5_NoGenerationNoResponse ==
    \A r \in Runs :
        (/\ QuerySources(nodes[r]) # {}
         /\ ValidEdges(r)
         /\ ~LlmReachable(r)
         /\ Resolved(r))
        => /\ pc[r] # "failed"
           /\ Calls(r, "generation") = {}
           /\ Calls(r, "search") = {}
           /\ inflight[r] = {}
           /\ pc[r] = "done" => /\ result[r][1].query = query[r]
                                /\ result[r][1].response = None

\* C6: in a run that completes and has executed a generation node, the response
\* is the text the last generation node's call returned, metadata.model is that
\* node's configured model ('gpt-4' when none is configured), metadata.web_context
\* is the web-search text got for that node, None when its web search is off.
C6_LastGenerationWins ==
    \A r \in Runs :
        (pc[r] = "done" /\ Calls(r, "generation") # {})
        => LET k == Max(Calls(r, "generation"))
               g == log[r][k]
               res == result[r][1]
           IN /\ res.response = g.out
              /\ g.out # None
              /\ res.metadata # None
              /\ res.metadata[1].model = Get(Get(node_configs[r], g.node, <<>>), "model", "gpt-4")
              /\ g.model = res.metadata[1].model
              /\ \A j \in 1..Len(execution_order[r]) :
                    j > Position(execution_order[r], g.node)
                    => TypeOf(r, execution_order[r][j]) # "llmEngine"
              /\ IF Get(Get(node_configs[r], g.node, <<>>), "enableWebSearch", FALSE)
                 THEN /\ k > 1
                      /\ log[r][k - 1].kind = "search"
                      /\ log[r][k - 1].node = g.node
                      /\ log[r][k - 1].out # None
                      /\ res.metadata[1].web_context = log[r][k - 1].out
                 ELSE res.metadata[1].web_context = None

C6_Witness ==
    \E r \in Runs :
        /\ pc[r] = "done"
        /\ Cardinality(Calls(r, "generation")) >= 2
        /\ LET k == Max(Calls(r, "generation"))
               j == Min(Calls(r, "generation"))
           IN /\ log[r][j].out # log[r][k].out
              /\ log[r][j].model # log[r][k].model
              /\ result[r][1].metadata[1].web_context = None
              /\ Calls(r, "search") # {}

\* C7: within a run the order is computed whole before the first node is taken;
\* the nodes are then taken one after another in that order, each once, none
\* left out; the calls are made in that order, and at most one call is awaited.
C7_SequentialDispatch ==
    \A r \in Runs :
        /\ ~Returned(r) => /\ dispatched[r] = <<>>
                           /\ log[r] = <<>>
                           /\ execution_order[r] = <<>>
        /\ Returned(r) =>
              /\ stack[r] = <<>>
              /\ execution_order[r] = order[r]
              /\ Len(dispatched[r]) <= Len(execution_order[r])
              /\ dispatched[r] = SubSeq(execution_order[r], 1, Len(dispatched[r]))
              /\ NoDuplicates(dispatched[r])
              /\ Len(dispatched[r]) = IF pc[r] \in {"search", "failed"} THEN idx[r]
                                      ELSE idx[r] - 1
              /\ pc[r] = "done" => dispatched[r] = execution_order[r]
              /\ \A k \in 1..Len(log[r]) :
                    /\ log[r][k].node \in Range(dispatched[r])
                    /\ k > 1 => Position(dispatched[r], log[r][k - 1].node)
                                  <= Position(dispatched[r], log[r][k].node)
        /\ Cardinality(inflight[r]) <= 1
        /\ inflight[r] # {} => /\ pc[r] = "search"
                               /\ inflight[r] = {<<"search", CurrentId(r)>>}
                               /\ dispatched[r][Len(dispatched[r])] = CurrentId(r)

C7_Witness ==
    \E r \in Runs :
        /\ pc[r] = "done"
        /\ Len(execution_order[r]) >= 4
        /\ Calls(r, "retrieval") # {}
        /\ Calls(r, "search") # {}
        /\ Cardinality(Calls(r, "generation")) >= 2

\* the state the run's own request and the answers to its own calls give
RECURSIVE Replay(_, _, _, _)
Replay(r, calls, st, web) ==
    IF calls = <<>> THEN st
    ELSE LET c == Head(calls)
         IN IF c.kind = "retrieval"
            THEN Replay(r, Tail(calls), [st EXCEPT !.context = ContextAfter(c.out)], None)
            ELSE IF c.kind = "search"
            THEN Replay(r, Tail(calls), st, c.out)
            ELSE IF c.out = None THEN st
            ELSE Replay(r, Tail(calls),
                        StateAfter(st, LlmResponse(c.out[1],
                            Get(Get(node_configs[r], c.node, <<>>), "model", "gpt-4"), web)),
                        None)

Alone(r, k) == Replay(r, SubSeq(log[r], 1, k), NewState(query[r]), None)

\* C8: two runs on the one executor, interleaved where they await, do not
\* affect each other: each works on a state of its own, which at every moment is
\* the state its own request and the answers to its own calls give; its calls
\* carry its own query and context, and its result is that state.
C8_RunsAreIndependent ==
    \A r \in Runs :
        Returned(r)
        => /\ state[StateKey(r)] = Alone(r, Len(log[r]))
           /\ \A k \in 1..Len(log[r]) :
                 /\ log[r][k].query = query[r]
                 /\ log[r][k].kind = "generation"
                    => log[r][k].context = Alone(r, k - 1).context
           /\ pc[r] = "done" => result[r] = Some(Alone(r, Len(log[r])))
           /\ pc[r] # "done" => result[r] = None

C8_Witness ==
    /\ pc[1] = "search" /\ pc[2] = "search"
    /\ log[1] # <<>> /\ log[2] # <<>>
    /\ state[StateKey(1)].context # state[StateKey(2)].context
    /\ state[StateKey(2)].response # None
    /\ state[StateKey(1)].response = None

----------------------------------------------------------------------------
(* The depth-first preorder of a graph, for the properties *)

\* the targets of the edges out of id, in the order of the edge list
Children(es, id) ==
    LET out == SelectSeq(es, LAMBDA e : e.source = id)
    IN [k \in 1..Len(out) |-> out[k].target]

\* acc, then the ids first reached from id (from each of ids in turn), in preorder
RECURSIVE PreorderFrom(_, _, _), PreorderAll(_, _, _)
PreorderFrom(es, id, acc) ==
    IF id \in Range(acc) THEN acc
    ELSE PreorderAll(es, Children(es, id), Append(acc, id))
PreorderAll(es, ids, acc) ==
    IF ids = <<>> THEN acc
    ELSE PreorderAll(es, Tail(ids), PreorderFrom(es, Head(ids), acc))

Preorder(es, entry) == PreorderFrom(es, entry, <<>>)

\* the edge list with the edges at i and j exchanged
Swap(es, i, j) ==
    [k \in 1..Len(es) |-> IF k = i THEN es[j] ELSE IF k = j THEN es[i] ELSE es[k]]

\* the edges at i < j are the first two edges out of one node, to two targets
FirstTwoOut(es, i, j) ==
    /\ i < j
    /\ es[i].source = es[j].source
    /\ es[i].target # es[j].target
    /\ \A k \in 1..(j - 1) : es[k].source = es[i].source => k = i

----------------------------------------------------------------------------
(* Several query sources *)

\* the ids of the query-source nodes other than the entry
OtherQuerySources(r) ==
    {nodes[r][i].id : i \in QuerySources(nodes[r])} \ {Entry(r)}

\* C12: for a graph with more than one query source (its edges between node
\* ids) no error is raised: the order is returned and starts at the query source
\* that comes first in the node list; another query source is in the order, and
\* is executed, only if it is reachable from that one, and executing it makes no
\* call and leaves the state as it was.
C12_FirstQuerySourceIsEntry ==
    \A r \in Runs :
        (/\ Cardinality(QuerySources(nodes[r])) > 1
         /\ ValidEdges(r)
         /\ Resolved(r))
        => /\ pc[r] # "failed"
           /\ error[r] = None
           /\ Returned(r)
           /\ execution_order[r][1] = Entry(r)
           /\ \A x \in OtherQuerySources(r) :
                 /\ x \in Range(execution_order[r]) <=> x \in Reachable(r)
                 /\ x \in Range(dispatched[r]) => x \in Reachable(r)
           /\ log[r] = <<>>
           /\ state[StateKey(r)] = NewState(query[r])

----------------------------------------------------------------------------
(* The prompt of a generation call *)

\* the template of the prompt for a context that is present
ContextTemplate(context, q) == "Context:\n" \o context \o "\n\nQuestion: " \o q

\* C13: the prompt of every generation call is built so: when state.context is
\* present (not None) the base prompt is 'Context:\n{context}\n\nQuestion: {query}',
\* otherwise the bare query; when the node's web search is enabled,
\* 'Web Search Results:\n{results}\n\n' comes before the base prompt. A context
\* that is the empty string (a retrieval with no result) is present.
C13_PromptTemplates ==
    \A r \in Runs : \A k \in Calls(r, "generation") :
        LET g == log[r][k]
            base == IF g.context # None THEN ContextTemplate(g.context[1], g.query)
                    ELSE g.query
        IN IF WebSearchOf(r, g.node)
           THEN /\ k > 1
                /\ log[r][k - 1].kind = "search"
                /\ log[r][k - 1].out # None
                /\ g.prompt = "Web Search Results:\n" \o log[r][k - 1].out[1] \o "\n\n" \o base
           ELSE g.prompt = base

----------------------------------------------------------------------------
(* The web search of a generation node *)

\* the enable-web-search flag of node id in the request's node_configs
FlagSet(r, id) == Get(Get(node_configs[r], id, <<>>), "enableWebSearch", FALSE)

\* C14: a generation node calls the web search if and only if its
\* enable-web-search flag is set (not set when absent); the web-search call has
\* been answered before the node's generation call is issued; when the
\* web-search call fails the node's generation call is never issued, the run is
\* aborted with that failure and returns no result, and the node writes neither
\* state.response nor state.metadata.
C14_WebSearchBeforeGeneration ==
    \A r \in Runs :
        /\ \A k \in Calls(r, "generation") :
              FlagSet(r, log[r][k].node)
              <=> /\ k > 1
                  /\ log[r][k - 1].kind = "search"
                  /\ log[r][k - 1].node = log[r][k].node
                  /\ log[r][k - 1].out # None
        /\ \A j \in Calls(r, "search") :
              /\ FlagSet(r, log[r][j].node)
              /\ TypeOf(r, log[r][j].node) = "llmEngine"
              /\ \A i \in Calls(r, "search") : log[r][i].node = log[r][j].node => i = j
              /\ log[r][j].out # None =>
                    /\ j < Len(log[r])
                    /\ log[r][j + 1].kind = "generation"
                    /\ log[r][j + 1].node = log[r][j].node
              /\ log[r][j].out = None =>
                    /\ j = Len(log[r])
                    /\ \A k \in Calls(r, "generation") : log[r][k].node # log[r][j].node
                    /\ pc[r] = "failed"
                    /\ error[r] = Some("SearchError")
                    /\ result[r] = None
                    /\ state[StateKey(r)] = Alone(r, j - 1)
        /\ pc[r] = "search" =>
              /\ FlagSet(r, CurrentId(r))
              /\ inflight[r] = {<<"search", CurrentId(r)>>}
              /\ \A k \in 1..Len(log[r]) : log[r][k].node # CurrentId(r)
        /\ \A i \in 1..Len(dispatched[r]) :
              (/\ NodeOf(nodes[r], dispatched[r][i]) # None
               /\ TypeOf(r, dispatched[r][i]) = "llmEngine"
               /\ FlagSet(r, dispatched[r][i])
               /\ ~(pc[r] = "search" /\ i = Len(dispatched[r])))
              => \E j \in Calls(r, "search") : log[r][j].node = dispatched[r][i]

C14_Witness ==
    \E r \in Runs :
        /\ FailedCalls(r, "search") # {}
        /\ pc[r] = "failed"
        /\ state[StateKey(r)].response # None
        /\ state[StateKey(r)].metadata # None
        /\ state[StateKey(r)].metadata[1].web_context = None
        /\ Cardinality(Calls(r, "generation")) = 1

----------------------------------------------------------------------------
(* The query of a run *)

\* C15: state.query is set when the run starts and never changes: at every step
\* of every run, and in the result returned, it is the query given to
\* execute_workflow, and every retrieval, web-search and generation call of the
\* run is given that query.
C15_QueryIsFixed ==
    \A r \in Runs :
        Returned(r)
        => /\ state[StateKey(r)].query = query[r]
           /\ \A k \in 1..Len(log[r]) : log[r][k].query = query[r]
           /\ pc[r] = "done" => /\ result[r] # None
                                /\ result[r][1].query = query[r]

C15_Witness ==
    /\ query[1] # query[2]
    /\ pc[1] = "done" /\ pc[2] = "done"
    /\ Calls(1, "retrieval") # {} /\ Calls(1, "generation") # {}
    /\ Calls(2, "search") # {} /\ Cardinality(Calls(2, "generation")) >= 2

----------------------------------------------------------------------------
(* The context a generation node reads *)

\* the retrieval calls made before call k of run r
RetrievalsBefore(r, k) == {j \in Calls(r, "retrieval") : j < k}

\* C16 (as stated): whenever a generation node reads state.context, a retrieval
\* node has been executed earlier in the run's order and has written it.
C16_ContextWrittenBeforeRead ==
    \A r \in Runs : \A k \in Calls(r, "generation") :
        \E j \in RetrievalsBefore(r, k) :
            Position(execution_order[r], log[r][j].node)
                < Position(execution_order[r], log[r][k].node)

\* C16 (amended): state.context is set to None when the run starts, so a
\* generation node can read it before any node has written it: with no
\* retrieval node earlier in the run's order it reads None; it reads a text only
\* when a retrieval node was executed earlier in the order and its retrieval
\* succeeded.
C16_ContextInitialisedBeforeRead ==
    \A r \in Runs :
        /\ Returned(r) /\ log[r] = <<>> => state[StateKey(r)].context = None
        /\ \A k \in Calls(r, "generation") :
              /\ RetrievalsBefore(r, k) = {} => log[r][k].context = None
              /\ log[r][k].context # None =>
                    \E j \in RetrievalsBefore(r, k) :
                        /\ log[r][j].out # None
                        /\ Position(execution_order[r], log[r][j].node)
                             < Position(execution_order[r], log[r][k].node)

C16_Witness ==
    \E r \in Runs :
        /\ pc[r] = "done"
        /\ Cardinality(Calls(r, "generation")) = 2
        /\ LET k1 == Min(Calls(r, "generation"))
               k2 == Max(Calls(r, "generation"))
           IN /\ RetrievalsBefore(r, k1) = {}
              /\ log[r][k1].context = None
              /\ RetrievalsBefore(r, k2) # {}
              /\ log[r][k2].context = Some("c1\n\nc2")

\* the documents joined by a blank line
RECURSIVE BlankLineJoined(_)
BlankLineJoined(docs) ==
    IF docs = <<>> THEN ""
    ELSE IF Len(docs) = 1 THEN docs[1]
    ELSE docs[1] \o "\n\n" \o BlankLineJoined(Tail(docs))

\* C17: the context given to the generation call of a generation node is the
\* outcome of the most recent retrieval node executed before it in the order:
\* that node's documents joined by a blank line when its retrieval succeeded,
\* None when it failed, None when no retrieval node ran earlier. Contexts are
\* not accumulated: a failed retrieval erases the context of an earlier one.
C17_ContextIsLatestRetrieval ==
    \A r \in Runs : \A k \in Calls(r, "generation") :
        LET g == log[r][k]
            O == execution_order[r]
        IN IF RetrievalsBefore(r, k) = {}
           THEN /\ g.context = None
                /\ \A p \in 1..(Position(O, g.node) - 1) : TypeOf(r, O[p]) # "knowledgeBase"
           ELSE LET j == Max(RetrievalsBefore(r, k))
                    c == log[r][j]
                IN /\ Position(O, c.node) < Position(O, g.node)
                   /\ \A p \in (Position(O, c.node) + 1)..(Position(O, g.node) - 1) :
                         TypeOf(r, O[p]) # "knowledgeBase"
                   /\ g.context = IF c.out = None THEN None
                                  ELSE Some(BlankLineJoined(c.out[1]))

C17_Witness ==
    \E r \in Runs : \E k \in Calls(r, "generation") :
        /\ Cardinality(RetrievalsBefore(r, k)) = 2
        /\ log[r][Min(RetrievalsBefore(r, k))].out = Some(<<"c1", "c2">>)
        /\ log[r][Max(RetrievalsBefore(r, k))].out = None
        /\ log[r][k].context = None
        /\ pc[r] = "done"

----------------------------------------------------------------------------
(* The nodes that do nothing *)

\* the step takes a node of run r that is neither a retrieval nor a generation node
TakesPassThrough(r) ==
    /\ Len(dispatched'[r]) = Len(dispatched[r]) + 1
    /\ NodeOf(nodes[r], dispatched'[r][Len(dispatched'[r])]) # None
    /\ TypeOf(r, dispatched'[r][Len(dispatched'[r])]) \notin {"knowledgeBase", "llmEngine"}

\* C18: dispatching a node whose type is query source, output, or a string that
\* is none of the four known types leaves every field of the state unchanged,
\* makes no external call and does not fail: the run goes on to the next node.
C18_PassThroughNodes ==
    [][\A r \in Runs :
          TakesPassThrough(r)
          => /\ state' = state
             /\ log' = log
             /\ inflight' = inflight
             /\ result' = result
             /\ error' = error
             /\ error[r] = None
             /\ pc'[r] = "loop" /\ pc[r] = "loop"
             /\ running' = r
             /\ idx'[r] = idx[r] + 1]_vars

C18_Witness ==
    \E r \in Runs :
        /\ pc[r] = "done"
        /\ Len(execution_order[r]) = 4
        /\ TypeOf(r, execution_order[r][2]) = "llmEngine"
        /\ TypeOf(r, execution_order[r][3]) = "custom"
        /\ TypeOf(r, execution_order[r][4]) = "knowledgeBase"
        /\ result[r][1].response # None
        /\ result[r][1].context # None

----------------------------------------------------------------------------
(* Edges to and from ids that are no node's *)

DanglingSources(r) ==
    {k \in 1..Len(edges[r]) : edges[r][k].source \notin NodeIds(nodes[r])}

\* the ids that are no node's and are reached from the entry
DanglingReached(r) ==
    IF QuerySources(nodes[r]) = {} THEN {} ELSE Reachable(r) \ NodeIds(nodes[r])

\* the node at position p of the order has been executed: a retrieval node has
\* made its retrieval call, a generation node its generation call
Executed(r, p) ==
    LET id == execution_order[r][p]
    IN /\ id \in Range(dispatched[r])
       /\ TypeOf(r, id) = "knowledgeBase"
            => \E k \in Calls(r, "retrieval") : log[r][k].node = id
       /\ TypeOf(r, id) = "llmEngine"
            => \E k \in Calls(r, "generation") : log[r][k].node = id /\ log[r][k].out # None

\* C19: edge endpoints are not validated first. An edge whose source is no node
\* id makes build_execution_order fail with KeyError while it builds the
\* adjacency lists: before the entry check (also when there is no query source),
\* before the traversal and before any call. An edge whose target is no node id
\* and is reached from the entry puts that id into the order returned; the run
\* never returns a result; when the loop reaches that id the run is aborted with
\* an error, every node before it in the order having been executed (its calls
\* made), no node after it taken.
C19_DanglingEndpoints ==
    \A r \in Runs :
        /\ (DanglingSources(r) # {} /\ pc[r] \notin {"idle", "start"})
           => /\ pc[r] = "failed"
              /\ error[r] = Some("KeyError")
              /\ ~Returned(r)
              /\ ncalls[r] = 0
              /\ graph[r] = <<>>
              /\ log[r] = <<>> /\ inflight[r] = {} /\ dispatched[r] = <<>>
              /\ result[r] = None
        /\ (DanglingSources(r) = {} /\ DanglingReached(r) # {})
           => /\ pc[r] # "done"
              /\ result[r] = None
              /\ Returned(r) =>
                    /\ DanglingReached(r) \subseteq Range(execution_order[r])
                    /\ \A z \in DanglingReached(r) :
                          LET p == Position(execution_order[r], z)
                          IN z \in Range(dispatched[r])
                             => /\ pc[r] = "failed"
                                /\ error[r] = Some("StopIteration")
                                /\ idx[r] = p
                                /\ dispatched[r] = SubSeq(execution_order[r], 1, p)
                                /\ \A q \in 1..(p - 1) : Executed(r, q)
                                /\ \A k \in 1..Len(log[r]) :
                                      Position(execution_order[r], log[r][k].node) < p

\* an edge from an id that is no node's, in a graph with no query source
C19_WitnessSource ==
    \E r \in Runs :
        /\ DanglingSources(r) # {}
        /\ QuerySources(nodes[r]) = {}
        /\ Len(nodes[r]) >= 2
        /\ pc[r] = "failed"

\* an edge to an id that is no node's, reached after a retrieval and a generation
C19_Witness ==
    \E r \in Runs :
        /\ DanglingSources(r) = {}
        /\ DanglingReached(r) # {}
        /\ pc[r] = "failed"
        /\ error[r] = Some("StopIteration")
        /\ Calls(r, "retrieval") # {}
        /\ Calls(r, "generation") # {}

====
